---- MODULE Spec2Model ----
(***************************************************************************)
(* lingo-cipher: the cipher construction (CipherFromKey, MakeNumbers), the *)
(* conversions (FromLetters, FromNumbers, fromInt) and the enumeration     *)
(* FindValidSums, in its callback version (src/main.go) and its collecting *)
(* version (src/unnamed/part_000).                                         *)
(*                                                                         *)
(* A Go string is modelled as the sequence of its runes (code points); its *)
(* len() is the sum of the UTF-8 widths of the runes.  A Go map is a       *)
(* function; a lookup of a missing key gives the zero rune.  A run-time    *)
(* panic is an outcome of its own ("panic").                               *)
(***************************************************************************)
EXTENDS Integers, Sequences, FiniteSets, TLC

(* ------------------------------ bounds -------------------------------- *)

\* longest key of the families LatinKey / RepeatKey
MaxKeyLen == 37
\* longest key of the family WideKey (two-byte symbols)
MaxWideLen == 18
\* longest key drawn letter by letter from Alphabet
MaxShortKey == 2
\* largest argument given to MakeNumbers directly
MaxL == 37
\* maxSum ranges over -NegSums .. MaxSum
MaxSum == 8
NegSums == 2
\* longest string given to FromLetters / FromNumbers
MaxConvLen == 2
\* numerals of fromInt are taken for 0 .. MaxVal
MaxVal == 40
\* FindValidSums is run on the ciphers of base <= MaxRunBase
MaxRunBase == 10

(* ------------------------- program constants -------------------------- *)

KeyLimit == 36
RuneZero == 48
RuneA == 97
SmallLimit == 8
FastBase == 10

ErrNil == "nil"
ErrKeyTooLong == "key longer than 36 characters"
ErrRepeat == "key contains repeat letters"
ErrNumbersTooLong == "cipher key too long"
Panic == "panic"

(* ------------------------------ strings ------------------------------- *)

\* bytes of the UTF-8 encoding of rune r
Utf8Len(r) == IF r < 128 THEN 1 ELSE IF r < 2048 THEN 2 ELSE IF r < 65536 THEN 3 ELSE 4

RECURSIVE ByteLen(_)
\* len(s) of a Go string: its length in bytes
ByteLen(s) == IF s = <<>> THEN 0 ELSE Utf8Len(Head(s)) + ByteLen(Tail(s))

\* m[x] of a Go map[rune]rune: the zero rune when x is no key
Lookup(m, x) == IF x \in DOMAIN m THEN m[x] ELSE 0

\* slices.Contains
Contains(s, x) == \E i \in 1..Len(s) : s[i] = x

(* ---------------------------- MakeNumbers ----------------------------- *)

MakeNumbersZeroLast(l, leading0) ==
    IF l >= KeyLimit THEN [err |-> ErrNumbersTooLong, numbers |-> <<>>]
    ELSE LET lengthWithout0 == l - 1
             numbers ==
                 IF lengthWithout0 <= SmallLimit
                 THEN [i \in 1..lengthWithout0 |-> RuneZero + (i - 1) + 1]
                 ELSE [i \in 1..9 |-> RuneZero + (i - 1) + 1]
                      \o [i \in 1..(lengthWithout0 - 9) |-> RuneA + (i - 1)]
         IN [err |-> ErrNil, numbers |-> Append(numbers, RuneZero)]

MakeNumbers(l, leading0) ==
    IF l >= KeyLimit THEN [err |-> ErrNumbersTooLong, numbers |-> <<>>]
    ELSE LET lengthWithout0 == l - 1
             numbers ==
                 IF lengthWithout0 <= SmallLimit
                 THEN [i \in 1..lengthWithout0 |-> RuneZero + (i - 1) + 1]
                 ELSE [i \in 1..9 |-> RuneZero + (i - 1) + 1]
                      \o [i \in 1..(lengthWithout0 - 9) |-> RuneA + (i - 1)]
         IN [err |-> ErrNil,
             numbers |-> IF leading0 THEN <<RuneZero>> \o numbers
                         ELSE Append(numbers, RuneZero)]

(* --------------------------- CipherFromKey ---------------------------- *)

NoCipher == [letterToNumber |-> <<>>, numberToLetter |-> <<>>, base |-> 0]

\* the position of the first rune of k already seen before it, 0 if none
FirstRepeat(k) ==
    LET rep == {i \in 1..Len(k) : Contains(SubSeq(k, 1, i - 1), k[i])}
    IN IF rep = {} THEN 0 ELSE CHOOSE i \in rep : \A j \in rep : i <= j

RECURSIVE FillMaps(_, _, _, _, _)
\* the loop "for i := range length": iteration i (0-based), maps so far in m
FillMaps(letters, numbers, i, length, m) ==
    IF i >= length THEN [err |-> ErrNil, maps |-> m]
    ELSE IF i + 1 > Len(letters) \/ i + 1 > Len(numbers)
    THEN [err |-> Panic, maps |-> m]
    ELSE FillMaps(letters, numbers, i + 1, length,
                  [l2n |-> (letters[i + 1] :> numbers[i + 1]) @@ m.l2n,
                   n2l |-> (numbers[i + 1] :> letters[i + 1]) @@ m.n2l])

TooLongAbove(length) == length > KeyLimit

TooLong(length) == length >= KeyLimit

CipherFromKey(k, leading0) ==
    LET length == ByteLen(k)
    IN IF TooLong(length) THEN [err |-> ErrKeyTooLong, cipher |-> NoCipher]
       ELSE IF FirstRepeat(k) # 0 THEN [err |-> ErrRepeat, cipher |-> NoCipher]
       ELSE LET made == MakeNumbers(length, leading0)
            IN IF made.err # ErrNil THEN [err |-> made.err, cipher |-> NoCipher]
               ELSE LET f == FillMaps(k, made.numbers, 0, length,
                                      [l2n |-> <<>>, n2l |-> <<>>])
                    IN IF f.err # ErrNil THEN [err |-> Panic, cipher |-> NoCipher]
                       ELSE [err |-> ErrNil,
                             cipher |-> [letterToNumber |-> f.maps.l2n,
                                         numberToLetter |-> f.maps.n2l,
                                         base |-> length]]

(* ---------------------------- conversions ----------------------------- *)

FromLetters(c, letters) ==
    [i \in 1..Len(letters) |-> Lookup(c.letterToNumber, letters[i])]

FromNumbers(c, numbers) ==
    [i \in 1..Len(numbers) |-> Lookup(c.numberToLetter, numbers[i])]

\* the digit of strconv's "0123456789abcdefghijklmnopqrstuvwxyz"
Digit(d) == IF d < 10 THEN RuneZero + d ELSE RuneA + (d - 10)

RECURSIVE FormatBits(_, _)
\* strconv.FormatInt(v, b) for v >= 0 and 2 <= b <= 36
FormatBits(v, b) ==
    IF v < b THEN <<Digit(v)>> ELSE Append(FormatBits(v \div b, b), Digit(v % b))

\* strconv.FormatInt panics on a base outside 2..36
fromInt(c, val) ==
    IF c.base = FastBase
    THEN LET numbers == FormatBits(val, 10)
         IN [panic |-> FALSE, numbers |-> numbers, letters |-> FromNumbers(c, numbers)]
    ELSE IF c.base < 2 \/ c.base > 36
    THEN [panic |-> TRUE, numbers |-> <<>>, letters |-> <<>>]
    ELSE LET numbers == FormatBits(val, c.base)
         IN [panic |-> FALSE, numbers |-> numbers, letters |-> FromNumbers(c, numbers)]

IsValidWord(w, wordList) == w \in wordList

(* --------------------------- FindValidSums ---------------------------- *)

ZeroWord == [numbers |-> <<>>, letters |-> <<>>]

\* Go's integer division truncates toward zero
TruncDiv(a, b) == IF a >= 0 THEN a \div b ELSE -((-a) \div b)

MaxNumberWhole(ms) == ms

\* maxNumber := maxSum / 2
MaxNumber(ms) == TruncDiv(ms, 2)

PrependValid(vn, n) == <<n>> \o vn

\* validNumbers = append(validNumbers, k)
AppendValid(vn, n) == Append(vn, n)

\* Triplet{iWord, validInfo[j], validInfo[i+j]} handed to action
MainTriplet(iw, jw, sw) == <<iw, jw, sw>>

CollTripletSwapped(iw, jw, sw) == <<jw, iw, sw>>

\* Triplet{iWord, validInfo[j], validInfo[i+j]} appended to result
CollTriplet(iw, jw, sw) == <<iw, jw, sw>>

(* ------------------------------ inputs -------------------------------- *)

\* 'a', 'b' and the two-byte 'e-acute'
Alphabet == {97, 98, 233}

ShortKeys == UNION {[1..n -> Alphabet] : n \in 0..MaxShortKey}

\* "abc...zABC...": pairwise distinct one-byte symbols
LatinKey(n) == [i \in 1..n |-> IF i <= 26 THEN 96 + i ELSE 64 + (i - 26)]

\* LatinKey(n-1) followed by a second 'a'
RepeatKey(n) == Append(LatinKey(n - 1), 97)

\* pairwise distinct two-byte symbols
WideKey(n) == [i \in 1..n |-> 232 + i]

Keys == ShortKeys
        \cup {LatinKey(n) : n \in 0..MaxKeyLen}
        \cup {RepeatKey(n) : n \in 2..MaxKeyLen}
        \cup {WideKey(n) : n \in 1..MaxWideLen}

\* "a", "b", "aa", "ab"
WordUniverse == {<<97>>, <<98>>, <<97, 97>>, <<97, 98>>}

WordLists == SUBSET WordUniverse

\* strings over 'a', 'b', 'z'
LetterStrings == UNION {[1..n -> {97, 98, 122}] : n \in 0..MaxConvLen}

\* strings over '0', '1', '9'
NumberStrings == UNION {[1..n -> {48, 49, 57}] : n \in 0..MaxConvLen}

(* ------------------------------- state -------------------------------- *)

VARIABLES
    pc,            \* "idle", "made", "built", "encoded", "back", "decoded", "run"
    mkArg, mkOut,  \* MakeNumbers: its arguments and what it returned
    key, leading0, \* CipherFromKey: its arguments
    cerr, cipher,  \* CipherFromKey: the error (or "panic") and the Cipher
    convIn,        \* FromLetters / FromNumbers: the argument
    convOut,       \* what it returned: a string, and never an error
    backOut,       \* FromNumbers of what FromLetters returned
    maxSum, wl,    \* FindValidSums: its arguments
    mpc, cpc,      \* position of the run of each version
    maxNumber, validInfo, isValid, validNumbers, k, ix, jx, iWord,
    emitted,       \* the Triplets handed to action, in order (src/main.go)
    result         \* the slice of the collecting version

cipherVars == <<key, leading0, cerr, cipher>>
mkVars == <<mkArg, mkOut>>
convVars == <<convIn, convOut, backOut>>
argVars == <<maxSum, wl>>
localVars == <<maxNumber, validInfo, isValid, validNumbers, k, ix, jx, iWord>>
vars == <<pc, mkVars, cipherVars, convVars, argVars, mpc, cpc, localVars,
          emitted, result>>

Init ==
    /\ pc = "idle"
    /\ mkArg = [l |-> 0, leading0 |-> FALSE]
    /\ mkOut = [err |-> ErrNil, numbers |-> <<>>]
    /\ key = <<>>
    /\ leading0 = FALSE
    /\ cerr = ErrNil
    /\ cipher = NoCipher
    /\ convIn = <<>>
    /\ convOut = [err |-> ErrNil, out |-> <<>>]
    /\ backOut = <<>>
    /\ maxSum = 0
    /\ wl = {}
    /\ mpc = "none"
    /\ cpc = "none"
    /\ maxNumber = 0
    /\ validInfo = <<>>
    /\ isValid = <<>>
    /\ validNumbers = <<>>
    /\ k = 0
    /\ ix = 0
    /\ jx = 0
    /\ iWord = ZeroWord
    /\ emitted = <<>>
    /\ result = <<>>

(* ------------------------------ actions ------------------------------- *)

CallMakeNumbers ==
    /\ pc = "idle"
    /\ \E l \in 0..MaxL, b \in BOOLEAN :
          /\ mkArg' = [l |-> l, leading0 |-> b]
          /\ mkOut' = MakeNumbers(l, b)
    /\ pc' = "made"
    /\ UNCHANGED <<cipherVars, convVars, argVars, mpc, cpc, localVars, emitted, result>>

CallCipherFromKey ==
    /\ pc = "idle"
    /\ \E kk \in Keys, b \in BOOLEAN :
          LET r == CipherFromKey(kk, b)
          IN /\ key' = kk
             /\ leading0' = b
             /\ cerr' = r.err
             /\ cipher' = r.cipher
    /\ pc' = "built"
    /\ UNCHANGED <<mkVars, convVars, argVars, mpc, cpc, localVars, emitted, result>>

CallFromLetters ==
    /\ pc = "built"
    /\ cerr = ErrNil
    /\ \E w \in LetterStrings :
          /\ convIn' = w
          /\ convOut' = [err |-> ErrNil, out |-> FromLetters(cipher, w)]
    /\ pc' = "encoded"
    /\ UNCHANGED <<mkVars, cipherVars, backOut, argVars, mpc, cpc, localVars, emitted, result>>

\* FromNumbers on what FromLetters returned
DecodeBack ==
    /\ pc = "encoded"
    /\ backOut' = FromNumbers(cipher, convOut.out)
    /\ pc' = "back"
    /\ UNCHANGED <<mkVars, cipherVars, convIn, convOut, argVars, mpc, cpc, localVars,
                   emitted, result>>

CallFromNumbers ==
    /\ pc = "built"
    /\ cerr = ErrNil
    /\ \E w \in NumberStrings :
          /\ convIn' = w
          /\ convOut' = [err |-> ErrNil, out |-> FromNumbers(cipher, w)]
    /\ pc' = "decoded"
    /\ UNCHANGED <<mkVars, cipherVars, backOut, argVars, mpc, cpc, localVars, emitted, result>>

(* FindValidSums of src/main.go *)

MainStart ==
    /\ pc = "built"
    /\ cerr = ErrNil
    /\ cipher.base <= MaxRunBase
    /\ \E ms \in (-NegSums)..MaxSum, w \in WordLists :
          /\ maxSum' = ms
          /\ wl' = w
          /\ maxNumber' = MaxNumber(ms)
          /\ IF ms < 0
             THEN \* make([]Word, maxSum) panics on a negative length
                  /\ mpc' = "panic"
                  /\ UNCHANGED <<validInfo, isValid>>
             ELSE /\ mpc' = "scan"
                  /\ validInfo' = [n \in 0..(ms - 1) |-> ZeroWord]
                  /\ isValid' = [n \in 0..(ms - 1) |-> FALSE]
    /\ validNumbers' = <<>>
    /\ k' = 0
    /\ pc' = "run"
    /\ UNCHANGED <<mkVars, cipherVars, convVars, cpc, ix, jx, iWord, emitted, result>>

MainScan ==
    /\ mpc = "scan"
    /\ IF k >= maxSum
       THEN /\ mpc' = "outer"
            /\ ix' = 1
            /\ UNCHANGED <<validInfo, isValid, validNumbers, k>>
       ELSE LET r == fromInt(cipher, k)
            IN IF r.panic
               THEN /\ mpc' = "panic"
                    /\ UNCHANGED <<validInfo, isValid, validNumbers, k, ix>>
               ELSE /\ IF IsValidWord(r.letters, wl)
                       THEN /\ validInfo' = [validInfo EXCEPT ![k] =
                                   [numbers |-> r.numbers, letters |-> r.letters]]
                            /\ isValid' = [isValid EXCEPT ![k] = TRUE]
                            /\ validNumbers' = AppendValid(validNumbers, k)
                       ELSE UNCHANGED <<validInfo, isValid, validNumbers>>
                    /\ k' = k + 1
                    /\ UNCHANGED <<mpc, ix>>
    /\ UNCHANGED <<pc, mkVars, cipherVars, convVars, argVars, cpc, maxNumber, jx, iWord,
                   emitted, result>>

MainOuter ==
    /\ mpc = "outer"
    /\ IF ix > Len(validNumbers) \/ validNumbers[ix] >= maxNumber
       THEN /\ mpc' = "ret"
            /\ UNCHANGED <<jx, iWord>>
       ELSE /\ iWord' = validInfo[validNumbers[ix]]
            /\ jx' = 1
            /\ mpc' = "inner"
    /\ UNCHANGED <<pc, mkVars, cipherVars, convVars, argVars, cpc, maxNumber, validInfo,
                   isValid, validNumbers, k, ix, emitted, result>>

MainInner ==
    /\ mpc = "inner"
    /\ LET i == validNumbers[ix]
       IN IF jx > Len(validNumbers)
          THEN /\ ix' = ix + 1
               /\ mpc' = "outer"
               /\ UNCHANGED <<jx, emitted>>
          ELSE LET j == validNumbers[jx]
               IN IF j < i
                  THEN /\ jx' = jx + 1
                       /\ UNCHANGED <<ix, mpc, emitted>>
                  ELSE IF j >= maxNumber
                  THEN /\ ix' = ix + 1
                       /\ mpc' = "outer"
                       /\ UNCHANGED <<jx, emitted>>
                  ELSE IF i + j \notin DOMAIN isValid
                  THEN \* index out of range
                       /\ mpc' = "panic"
                       /\ UNCHANGED <<ix, jx, emitted>>
                  ELSE /\ emitted' = IF isValid[i + j]
                                     THEN Append(emitted, MainTriplet(iWord, validInfo[j],
                                                                      validInfo[i + j]))
                                     ELSE emitted
                       /\ jx' = jx + 1
                       /\ UNCHANGED <<ix, mpc>>
    /\ UNCHANGED <<pc, mkVars, cipherVars, convVars, argVars, cpc, maxNumber, validInfo,
                   isValid, validNumbers, k, iWord, result>>

(* FindValidSums of src/unnamed/part_000, called with the same arguments *)

CollStart ==
    /\ mpc \in {"ret", "panic"}
    /\ cpc = "none"
    /\ maxNumber' = MaxNumber(maxSum)
    /\ IF maxSum < 0
       THEN /\ cpc' = "panic"
            /\ UNCHANGED <<validInfo, isValid>>
       ELSE /\ cpc' = "scan"
            /\ validInfo' = [n \in 0..(maxSum - 1) |-> ZeroWord]
            /\ isValid' = [n \in 0..(maxSum - 1) |-> FALSE]
    /\ validNumbers' = <<>>
    /\ k' = 0
    /\ result' = <<>>
    /\ UNCHANGED <<pc, mkVars, cipherVars, convVars, argVars, mpc, ix, jx, iWord, emitted>>

CollScan ==
    /\ cpc = "scan"
    /\ IF k >= maxSum
       THEN /\ cpc' = "outer"
            /\ ix' = 1
            /\ UNCHANGED <<validInfo, isValid, validNumbers, k>>
       ELSE LET r == fromInt(cipher, k)
            IN IF r.panic
               THEN /\ cpc' = "panic"
                    /\ UNCHANGED <<validInfo, isValid, validNumbers, k, ix>>
               ELSE /\ IF IsValidWord(r.letters, wl)
                       THEN /\ validInfo' = [validInfo EXCEPT ![k] =
                                   [numbers |-> r.numbers, letters |-> r.letters]]
                            /\ isValid' = [isValid EXCEPT ![k] = TRUE]
                            /\ validNumbers' = AppendValid(validNumbers, k)
                       ELSE UNCHANGED <<validInfo, isValid, validNumbers>>
                    /\ k' = k + 1
                    /\ UNCHANGED <<cpc, ix>>
    /\ UNCHANGED <<pc, mkVars, cipherVars, convVars, argVars, mpc, maxNumber, jx, iWord,
                   emitted, result>>

CollOuter ==
    /\ cpc = "outer"
    /\ IF ix > Len(validNumbers) \/ validNumbers[ix] >= maxNumber
       THEN /\ cpc' = "ret"
            /\ UNCHANGED <<jx, iWord>>
       ELSE /\ iWord' = validInfo[validNumbers[ix]]
            /\ jx' = 1
            /\ cpc' = "inner"
    /\ UNCHANGED <<pc, mkVars, cipherVars, convVars, argVars, mpc, maxNumber, validInfo,
                   isValid, validNumbers, k, ix, emitted, result>>

CollInner ==
    /\ cpc = "inner"
    /\ LET i == validNumbers[ix]
       IN IF jx > Len(validNumbers)
          THEN /\ ix' = ix + 1
               /\ cpc' = "outer"
               /\ UNCHANGED <<jx, result>>
          ELSE LET j == validNumbers[jx]
               IN IF j < i
                  THEN /\ jx' = jx + 1
                       /\ UNCHANGED <<ix, cpc, result>>
                  ELSE IF j >= maxNumber
                  THEN /\ ix' = ix + 1
                       /\ cpc' = "outer"
                       /\ UNCHANGED <<jx, result>>
                  ELSE IF i + j \notin DOMAIN isValid
                  THEN /\ cpc' = "panic"
                       /\ UNCHANGED <<ix, jx, result>>
                  ELSE /\ result' = IF isValid[i + j]
                                    THEN Append(result, CollTriplet(iWord, validInfo[j],
                                                                    validInfo[i + j]))
                                    ELSE result
                       /\ jx' = jx + 1
                       /\ UNCHANGED <<ix, cpc>>
    /\ UNCHANGED <<pc, mkVars, cipherVars, convVars, argVars, mpc, maxNumber, validInfo,
                   isValid, validNumbers, k, iWord, emitted>>

Next ==
    \/ CallMakeNumbers
    \/ CallCipherFromKey
    \/ CallFromLetters
    \/ DecodeBack
    \/ CallFromNumbers
    \/ MainStart
    \/ MainScan
    \/ MainOuter
    \/ MainInner
    \/ CollStart
    \/ CollScan
    \/ CollOuter
    \/ CollInner

Spec == Init /\ [][Next]_vars

(* ----------------------- auxiliary definitions ------------------------- *)

\* CipherFromKey has been called
Built == pc \notin {"idle", "made"}

\* the run of src/main.go has ended, by returning or by a panic
MainEnded == mpc \in {"ret", "panic"}

CollEnded == cpc \in {"ret", "panic"}

Range(s) == {s[i] : i \in 1..Len(s)}

Distinct(s) == \A i, j \in 1..Len(s) : i # j => s[i] # s[j]

HasRepeat(s) == \E i, j \in 1..Len(s) : i < j /\ s[i] = s[j]

\* the value of a digit symbol
DigitVal(r) == IF r >= RuneA THEN r - RuneA + 10 ELSE r - RuneZero

RECURSIVE ParseInt(_, _)
\* the integer a numeral denotes in base b
ParseInt(s, b) ==
    IF s = <<>> THEN 0
    ELSE ParseInt(SubSeq(s, 1, Len(s) - 1), b) * b + DigitVal(s[Len(s)])

\* the integer value of a Word of the current cipher
Value(w) == ParseInt(w.numbers, cipher.base)

\* v has a positional numeral in base b: any v in a base >= 2, and 0 ("0")
HasNumeral(v, b) == v = 0 \/ b >= 2

Numeral(v, b) == IF v = 0 THEN <<RuneZero>> ELSE FormatBits(v, b)

\* the Word of integer v under the current cipher
WordOf(v) ==
    [numbers |-> Numeral(v, cipher.base),
     letters |-> FromNumbers(cipher, Numeral(v, cipher.base))]

IsWord(v) == HasNumeral(v, cipher.base) /\ WordOf(v).letters \in wl

ExpectedTriplets ==
    {<<WordOf(p[1]), WordOf(p[2]), WordOf(p[1] + p[2])>> :
        p \in {q \in (0..MaxSum + 1) \X (0..MaxSum + 1) :
                  /\ q[1] <= q[2]
                  /\ q[2] < TruncDiv(maxSum, 2)
                  /\ q[1] + q[2] < maxSum
                  /\ IsWord(q[1]) /\ IsWord(q[2]) /\ IsWord(q[1] + q[2])}}

(* ----------------------------- properties ----------------------------- *)

\* C1: when FindValidSums has run with maxSum > 0, the Triplets it emitted are
\* exactly the triples (a, b, a+b) with a <= b < maxSum/2, a+b < maxSum whose
\* three decoded words are in the WordList, each Word pairing the numeral with
\* its decoding.
C1_ExactTriplets ==
    (MainEnded /\ maxSum > 0) => Range(emitted) = ExpectedTriplets

\* C2: every emitted addend has a value below maxSum/2 (truncating division),
\* every emitted sum a value below maxSum, and the index i+j looked up in
\* isValid lies in [0, maxSum).
C2_Bounds ==
    /\ \A n \in 1..Len(emitted) :
          /\ emitted[n][1].numbers # <<>> /\ emitted[n][2].numbers # <<>>
          /\ emitted[n][3].numbers # <<>>
          /\ Value(emitted[n][1]) < TruncDiv(maxSum, 2)
          /\ Value(emitted[n][2]) < TruncDiv(maxSum, 2)
          /\ Value(emitted[n][3]) < maxSum
    /\ (mpc = "inner" /\ jx <= Len(validNumbers)
          /\ validNumbers[ix] <= validNumbers[jx] /\ validNumbers[jx] < maxNumber)
       => validNumbers[ix] + validNumbers[jx] \in 0..(maxSum - 1)

C2_Witness ==
    mpc = "ret" /\ maxSum % 2 = 1 /\ Len(emitted) >= 2
    /\ \E n \in 1..Len(emitted) : Value(emitted[n][2]) = TruncDiv(maxSum, 2) - 1

\* C3: with maxSum <= 0 FindValidSums returns normally and emits nothing.
C3_EmptyNoError ==
    (MainEnded /\ maxSum <= 0) => (mpc = "ret" /\ emitted = <<>>)

\* C4: the emitted sequence is strictly increasing in the lexicographic order
\* of (value of addend1, value of addend2).
C4_Ordered ==
    \A n \in 1..(Len(emitted) - 1) :
        LET a1 == Value(emitted[n][1])
            b1 == Value(emitted[n][2])
            a2 == Value(emitted[n + 1][1])
            b2 == Value(emitted[n + 1][2])
        IN a1 < a2 \/ (a1 = a2 /\ b1 < b2)

C4_Witness ==
    /\ mpc = "ret"
    /\ Len(emitted) >= 4
    /\ \E n \in 1..(Len(emitted) - 1) : Value(emitted[n][1]) = Value(emitted[n + 1][1])
    /\ \E n \in 1..(Len(emitted) - 1) : Value(emitted[n][1]) < Value(emitted[n + 1][1])

\* C5: for every key of pairwise distinct symbols with fewer than 36 symbols
\* CipherFromKey returns without error a Cipher whose two maps are inverse
\* bijections over the key's symbols and whose base is the number of symbols.
C5_Bijection ==
    (Built /\ Distinct(key) /\ Len(key) < 36) =>
        /\ cerr = ErrNil
        /\ cipher.base = Len(key)
        /\ DOMAIN cipher.letterToNumber = Range(key)
        /\ \A c \in Range(key) :
              FromNumbers(cipher, FromLetters(cipher, <<c>>)) = <<c>>
        /\ \A n \in DOMAIN cipher.numberToLetter :
              /\ cipher.numberToLetter[n] \in Range(key)
              /\ cipher.letterToNumber[cipher.numberToLetter[n]] = n

\* C6 as stated: every key with a repeated symbol, of any length, fails with
\* the duplicate-letter error.
C6_RepeatAnyLength ==
    (Built /\ HasRepeat(key)) => cerr = ErrRepeat

\* C6 as amended: a key with a repeated symbol fails with the duplicate-letter
\* error when it is shorter than 36 bytes and with the key-too-long error when
\* it is 36 bytes or longer; in both cases no Cipher is returned.
C6_RepeatByLength ==
    (Built /\ HasRepeat(key)) =>
        /\ ByteLen(key) < 36 => cerr = ErrRepeat
        /\ ByteLen(key) >= 36 => cerr = ErrKeyTooLong
        /\ cipher = NoCipher

C6_Witness ==
    Built /\ HasRepeat(key) /\ ByteLen(key) = 36 /\ cerr = ErrKeyTooLong

\* C7: on every Cipher CipherFromKey returned without error and every
\* maxSum > 0, FindValidSums runs to completion (no panic).
C7_Total ==
    (MainEnded /\ cerr = ErrNil /\ maxSum > 0) => mpc = "ret"

\* the digit symbols 1 .. l-1 in increasing order
NonZeroDigits(l) == [i \in 1..(l - 1) |-> Digit(i)]

\* what C8 says MakeNumbers(l, lead) returns
NumbersShape(l, lead, out) ==
    /\ out.err = ErrNil
    /\ Len(out.numbers) = l
    /\ Distinct(out.numbers)
    /\ out.numbers = IF lead THEN <<RuneZero>> \o NonZeroDigits(l)
                     ELSE Append(NonZeroDigits(l), RuneZero)
    /\ Range(out.numbers) = {Digit(d) : d \in 0..(l - 1)}

\* every numeral fromInt produces under the built cipher decodes through
\* defined mappings only
NumeralsMapped ==
    (Built /\ cerr = ErrNil) =>
        \A v \in 0..MaxVal :
            LET r == fromInt(cipher, v)
            IN ~r.panic =>
                  /\ Range(r.numbers) \subseteq DOMAIN cipher.numberToLetter
                  /\ 0 \notin Range(r.letters)

\* C8 as stated: for every 0 <= L < 36 MakeNumbers returns exactly L pairwise
\* distinct symbols, the digits 1..L-1 in order with '0' first or last, and
\* every numeral of fromInt decodes through defined mappings.
C8_NumbersFromZero ==
    /\ (pc = "made" /\ mkArg.l < 36) => NumbersShape(mkArg.l, mkArg.leading0, mkOut)
    /\ NumeralsMapped

\* C8 as amended: the same for every 1 <= L < 36; MakeNumbers(0, leading0)
\* returns the one-symbol sequence '0'.
C8_NumbersFromOne ==
    /\ (pc = "made" /\ mkArg.l >= 1 /\ mkArg.l < 36)
          => NumbersShape(mkArg.l, mkArg.leading0, mkOut)
    /\ (pc = "made" /\ mkArg.l = 0)
          => (mkOut.err = ErrNil /\ mkOut.numbers = <<RuneZero>>)
    /\ NumeralsMapped

C8_Witness ==
    pc = "made" /\ mkArg.l = 12 /\ mkArg.leading0
    /\ mkOut.numbers[1] = RuneZero /\ mkOut.numbers[12] = RuneA + 1

\* C9: a conversion of a string with a symbol outside the mapping yields the
\* UnmappedSymbol error; a string of mapped symbols yields its image, and
\* FromNumbers(FromLetters(w)) = w.
C9_UnmappedIsError ==
    /\ (pc \in {"encoded", "back"} /\ ~(Range(convIn) \subseteq DOMAIN cipher.letterToNumber))
          => convOut.err = "UnmappedSymbol"
    /\ (pc = "decoded" /\ ~(Range(convIn) \subseteq DOMAIN cipher.numberToLetter))
          => convOut.err = "UnmappedSymbol"
    /\ (pc = "back" /\ Range(convIn) \subseteq DOMAIN cipher.letterToNumber)
          => backOut = convIn

\* C10: for maxSum >= 0 the Triplets handed to action by src/main.go are, in
\* order, the slice the collecting version returns (and the two end the same
\* way); no step of either run changes the Cipher or the WordList.
C10_Equivalent ==
    [][/\ pc = "run" => (cipher' = cipher /\ wl' = wl)
       /\ (CollEnded' /\ maxSum' >= 0) =>
             /\ result' = emitted'
             /\ cpc' = mpc']_vars

C10_Witness ==
    cpc = "ret" /\ mpc = "ret" /\ Len(result) >= 3 /\ result = emitted

====
